---- MODULE Spec2Model ----
(***************************************************************************)
(* Model of vercel_app.py (NTS tracklist extractor): the embedded-JSON     *)
(* locator extract_tracklist_from_html, json.loads on the located span,    *)
(* the release filter is_unreleased_track, the classification loop of      *)
(* fetch_nts_tracklist and the /api/extract handler around them.           *)
(*                                                                         *)
(* Text is a sequence of one-character strings.  One further element, Pad, *)
(* stands for a block of PadLen consecutive spaces, so that documents      *)
(* longer than the 500000-character scan window can be written down.       *)
(* Every index (tracklist_start, json_start, i, json_end) is the Python    *)
(* character index, counted from 0, with a Pad block counting PadLen.      *)
(***************************************************************************)
EXTENDS Integers, Sequences, FiniteSets, TLC

\* ------------------------------------------------------------------ text

\* range(json_start, min(json_start + 500000, len(html)))
ScanCeiling == 500000

\* A Pad block is PadSlack characters shorter than the scan window.
PadSlack == 12
PadLen == ScanCeiling - PadSlack
Pad == "<pad>"

\* Number of characters an element of a text stands for.
Width(e) == IF e = Pad THEN PadLen ELSE 1

\* The elements among the first m of t that are Pad blocks.
PadsUpTo(t, m) == {j \in 1..m : t[j] = Pad}

\* Characters in the first m elements of t.
Span(t, m) == m + (PadLen - 1) * Cardinality(PadsUpTo(t, m))

\* len(html)
TLen(t) == Span(t, Len(t))

\* Character index of the k-th element of t (k = Len(t)+1 gives len(t)).
Off(t, k) == Span(t, k - 1)

\* The element of t that covers character index i (0 <= i < TLen(t)): a Pad
\* block, or the element i + 1 moved back by the Pad blocks before it.
ElemAt(t, i) ==
    LET pads == PadsUpTo(t, Len(t))
        cands == pads \cup {i + 1 - m * (PadLen - 1) : m \in 0..Cardinality(pads)}
    IN  CHOOSE k \in cands \cap (1..Len(t)) : Off(t, k) <= i /\ i < Off(t, k) + Width(t[k])

\* html[a:b] for a, b on element boundaries.
Slice(t, a, b) ==
    LET ks == {k \in 1..Len(t) : a <= Off(t, k) /\ Off(t, k) + Width(t[k]) <= b}
    IN  IF ks = {} THEN <<>>
        ELSE SubSeq(t, CHOOSE k \in ks : \A j \in ks : k <= j,
                       CHOOSE k \in ks : \A j \in ks : j <= k)

\* pat occurs in t at element k.
MatchAt(t, pat, k) ==
    /\ k + Len(pat) - 1 <= Len(t)
    /\ \A j \in 1..Len(pat) : t[k + j - 1] = pat[j]

\* str.find(pat, from): lowest character index >= from where pat occurs, else -1.
\* (pat never contains Pad, so an occurrence starts on an element boundary.)
FindFrom(t, pat, from) ==
    LET ks == {k \in 1..Len(t) : MatchAt(t, pat, k) /\ Off(t, k) >= from}
    IN  IF ks = {} THEN -1
        ELSE Off(t, CHOOSE k \in ks : \A j \in ks : k <= j)

\* 'pat in t'
Contains(t, pat) == \E k \in 1..(Len(t) + 1) : MatchAt(t, pat, k)

\* html.find('"tracklist":[{')
Anchor == <<"\"", "t", "r", "a", "c", "k", "l", "i", "s", "t", "\"", ":", "[", "{">>

\* ------------------------------------------------------- decoded values
\* Python values produced by json.loads.  A dict is its items in insertion
\* order; None is Null.

Null == [null |-> TRUE]
Bool(b) == [bool |-> b]
Str(s) == [str |-> s]
Arr(s) == [arr |-> s]
Obj(items) == [obj |-> items]

IsNull(v) == "null" \in DOMAIN v
IsStr(v) == "str" \in DOMAIN v
IsArr(v) == "arr" \in DOMAIN v
IsObj(v) == "obj" \in DOMAIN v
IsBool(v) == "bool" \in DOMAIN v

\* dict[key] = val : replaces the value of an existing key in place, else appends.
DictPut(items, key, val) ==
    IF \E n \in 1..Len(items) : items[n].k = key
    THEN [n \in 1..Len(items) |-> IF items[n].k = key THEN [k |-> key, v |-> val] ELSE items[n]]
    ELSE Append(items, [k |-> key, v |-> val])

HasKey(d, key) == \E n \in 1..Len(d.obj) : d.obj[n].k = key

\* dict.get(key, default)
Get(d, key, default) ==
    IF HasKey(d, key)
    THEN d.obj[CHOOSE n \in 1..Len(d.obj) : d.obj[n].k = key].v
    ELSE default

\* ------------------------------------------------------------ json.loads
\* The decoder on the modelled alphabet: arrays, objects, strings with the
\* escapes \" \\ \/ \n \t \r \f, the literals null, true and false, and
\* whitespace (a Pad block is whitespace).  Numbers, NaN, Infinity and
\* \b, \uXXXX escapes are outside the alphabet of the modelled documents.

IsWs(e) == e \in {" ", "\n", "\t", "\r", Pad}

RECURSIVE SkipWs(_, _)
SkipWs(s, p) == IF p <= Len(s) /\ IsWs(s[p]) THEN SkipWs(s, p + 1) ELSE p

Fail == [ok |-> FALSE, v |-> Null, p |-> 0]
Ok(v, p) == [ok |-> TRUE, v |-> v, p |-> p]

EscapeChars == {"\"", "\\", "/", "n", "t", "r", "f"}
Unescape(c) ==
    CASE c = "n" -> "\n"
      [] c = "t" -> "\t"
      [] c = "r" -> "\r"
      [] c = "f" -> "\f"
      [] OTHER -> c

\* Raw control characters are rejected inside strings (strict mode).
ControlChars == {"\n", "\t", "\r", "\f"}

\* py_scanstring: p is the position after the opening quote.
RECURSIVE ParseString(_, _, _)
ParseString(s, p, acc) ==
    IF p > Len(s) THEN Fail
    ELSE IF s[p] = "\"" THEN Ok(Str(acc), p + 1)
    ELSE IF s[p] = "\\" THEN
        IF p + 1 > Len(s) \/ s[p + 1] \notin EscapeChars THEN Fail
        ELSE ParseString(s, p + 2, Append(acc, Unescape(s[p + 1])))
    ELSE IF s[p] \in ControlChars THEN Fail
    ELSE ParseString(s, p + 1, Append(acc, s[p]))

LitNull == <<"n", "u", "l", "l">>
LitTrue == <<"t", "r", "u", "e">>
LitFalse == <<"f", "a", "l", "s", "e">>

RECURSIVE ParseValue(_, _)
RECURSIVE ParseArray(_, _, _)
RECURSIVE ParseObject(_, _, _)

\* scanner.py_make_scanner._scan_once
ParseValue(s, p) ==
    IF p > Len(s) THEN Fail
    ELSE IF s[p] = "\"" THEN ParseString(s, p + 1, <<>>)
    ELSE IF s[p] = "[" THEN
        LET q == SkipWs(s, p + 1)
        IN  IF q <= Len(s) /\ s[q] = "]" THEN Ok(Arr(<<>>), q + 1)
            ELSE ParseArray(s, q, <<>>)
    ELSE IF s[p] = "{" THEN
        LET q == SkipWs(s, p + 1)
        IN  IF q <= Len(s) /\ s[q] = "}" THEN Ok(Obj(<<>>), q + 1)
            ELSE ParseObject(s, q, <<>>)
    ELSE IF MatchAt(s, LitNull, p) THEN Ok(Null, p + 4)
    ELSE IF MatchAt(s, LitTrue, p) THEN Ok(Bool(TRUE), p + 4)
    ELSE IF MatchAt(s, LitFalse, p) THEN Ok(Bool(FALSE), p + 5)
    ELSE Fail

\* decoder.JSONArray: p is at the start of the next element.
ParseArray(s, p, acc) ==
    LET r == ParseValue(s, p)
    IN  IF ~r.ok THEN Fail
        ELSE LET q == SkipWs(s, r.p)
             IN  IF q > Len(s) THEN Fail
                 ELSE IF s[q] = "]" THEN Ok(Arr(Append(acc, r.v)), q + 1)
                 ELSE IF s[q] = "," THEN ParseArray(s, SkipWs(s, q + 1), Append(acc, r.v))
                 ELSE Fail

\* decoder.JSONObject: p is at the start of the next key.
ParseObject(s, p, acc) ==
    IF p > Len(s) \/ s[p] # "\"" THEN Fail
    ELSE LET key == ParseString(s, p + 1, <<>>)
         IN  IF ~key.ok THEN Fail
             ELSE LET c == SkipWs(s, key.p)
                  IN  IF c > Len(s) \/ s[c] # ":" THEN Fail
                      ELSE LET r == ParseValue(s, SkipWs(s, c + 1))
                           IN  IF ~r.ok THEN Fail
                               ELSE LET q == SkipWs(s, r.p)
                                        items == DictPut(acc, key.v.str, r.v)
                                    IN  IF q > Len(s) THEN Fail
                                        ELSE IF s[q] = "}" THEN Ok(Obj(items), q + 1)
                                        ELSE IF s[q] = "," THEN ParseObject(s, SkipWs(s, q + 1), items)
                                        ELSE Fail

\* json.loads(json_str): one value, nothing but whitespace around it;
\* ok = FALSE is JSONDecodeError.
Loads(s) ==
    LET r == ParseValue(s, SkipWs(s, 1))
    IN  IF r.ok /\ SkipWs(s, r.p) > Len(s) THEN r ELSE Fail

\* ---------------------------------------------------------- str methods

UpperCase == <<"A", "B", "C", "D", "E", "F", "G", "H", "I", "J", "K", "L", "M",
               "N", "O", "P", "Q", "R", "S", "T", "U", "V", "W", "X", "Y", "Z">>
LowerCase == <<"a", "b", "c", "d", "e", "f", "g", "h", "i", "j", "k", "l", "m",
               "n", "o", "p", "q", "r", "s", "t", "u", "v", "w", "x", "y", "z">>

IsUpper(c) == \E n \in 1..26 : UpperCase[n] = c
IsLower(c) == \E n \in 1..26 : LowerCase[n] = c
ToLower(c) == IF IsUpper(c) THEN LowerCase[CHOOSE n \in 1..26 : UpperCase[n] = c] ELSE c
ToUpper(c) == IF IsLower(c) THEN UpperCase[CHOOSE n \in 1..26 : LowerCase[n] = c] ELSE c

\* str.lower()
Lower(s) == [n \in 1..Len(s) |-> ToLower(s[n])]

\* str.title(): a cased character is upper-cased after an uncased one (or at
\* the start) and lower-cased after a cased one.
TitleCase(s) ==
    [n \in 1..Len(s) |->
        IF n > 1 /\ (IsUpper(s[n - 1]) \/ IsLower(s[n - 1]))
        THEN ToLower(s[n]) ELSE ToUpper(s[n])]

\* Characters str.strip() removes.
IsSpace(c) == c \in {" ", "\n", "\t", "\r", "\f", Pad}

\* str.strip()
Strip(s) ==
    LET ks == {k \in 1..Len(s) : ~IsSpace(s[k])}
    IN  IF ks = {} THEN <<>>
        ELSE SubSeq(s, CHOOSE k \in ks : \A j \in ks : k <= j,
                       CHOOSE k \in ks : \A j \in ks : j <= k)

\* str.replace(old, new) for one-character old and new
Replace(s, old, new) == [n \in 1..Len(s) |-> IF s[n] = old THEN new ELSE s[n]]

\* sep.join(parts)
RECURSIVE Join(_, _)
Join(sep, parts) ==
    IF parts = <<>> THEN <<>>
    ELSE IF Len(parts) = 1 THEN parts[1]
    ELSE parts[1] \o sep \o Join(sep, Tail(parts))

\* ------------------------------------------------------ is_unreleased_track

unreleased_keywords == <<
    <<"u", "n", "r", "e", "l", "e", "a", "s", "e", "d">>,
    <<"f", "o", "r", "t", "h", "c", "o", "m", "i", "n", "g">>,
    <<"t", "b", "c">>,
    <<"t", "b", "a">>,
    <<"t", "o", " ", "b", "e", " ", "a", "n", "n", "o", "u", "n", "c", "e", "d">>,
    <<"i", "d", " ", "-", " ", "i", "d">>,
    <<"u", "n", "k", "n", "o", "w", "n">> >>

is_unreleased_track_CaseSensitive(title) ==
    IF title = <<>> THEN TRUE
    ELSE \E n \in 1..Len(unreleased_keywords) : Contains(title, unreleased_keywords[n])

is_unreleased_track(title) ==
    IF title = <<>> THEN TRUE
    ELSE LET title_lower == Lower(title)
         IN  \E n \in 1..Len(unreleased_keywords) :
                 Contains(title_lower, unreleased_keywords[n])

\* ------------------------------------------- fetch_nts_tracklist, per track

K_title == <<"t", "i", "t", "l", "e">>
K_mainArtists == <<"m", "a", "i", "n", "A", "r", "t", "i", "s", "t", "s">>
K_featuringArtists == <<"f", "e", "a", "t", "u", "r", "i", "n", "g", "A", "r", "t", "i", "s", "t", "s">>
K_remixArtists == <<"r", "e", "m", "i", "x", "A", "r", "t", "i", "s", "t", "s">>
K_name == <<"n", "a", "m", "e">>

CommaSpace == <<",", " ">>
FtSep == <<" ", "f", "t", ".", " ">>
RemixOpen == <<" ", "(">>
RemixClose == <<" ", "R", "e", "m", "i", "x", ")">>
DashSep == <<" ", "-", " ">>

\* 'not x' for a Python value
Falsy(v) ==
    \/ IsNull(v)
    \/ IsArr(v) /\ v.arr = <<>>
    \/ IsObj(v) /\ v.obj = <<>>
    \/ IsStr(v) /\ v.str = <<>>
    \/ IsBool(v) /\ ~v.bool

\* [a['name'] for a in v]: ok = FALSE when the comprehension raises (v is not
\* iterable, an item is not a dict, or a dict has no 'name').  Iterating an
\* empty str or dict yields nothing; any character or key then fails a['name'].
NamesOf(v) ==
    IF IsArr(v) THEN
        IF \A n \in 1..Len(v.arr) : IsObj(v.arr[n]) /\ HasKey(v.arr[n], K_name)
        THEN [ok |-> TRUE, names |-> [n \in 1..Len(v.arr) |-> Get(v.arr[n], K_name, Null)]]
        ELSE [ok |-> FALSE, names |-> <<>>]
    ELSE IF (IsStr(v) /\ v.str = <<>>) \/ (IsObj(v) /\ v.obj = <<>>)
    THEN [ok |-> TRUE, names |-> <<>>]
    ELSE [ok |-> FALSE, names |-> <<>>]

\* ', '.join(names) raises TypeError unless every item is a str.
CanJoin(names) == \A n \in 1..Len(names) : IsStr(names[n])
JoinNames(names) == Join(CommaSpace, [n \in 1..Len(names) |-> names[n].str])

Raised == [kind |-> "raise"]
Skipped == [kind |-> "continue"]
Appended(item) == [kind |-> "append", item |-> item]

\* artist_str (lines 115-117)
ArtistStrNoFt(main_artists, featuring) == JoinNames(main_artists)

ArtistStr(main_artists, featuring) ==
    IF featuring # <<>>
    THEN JoinNames(main_artists) \o FtSep \o JoinNames(featuring)
    ELSE JoinNames(main_artists)

\* title with remix info (lines 120-121)
TitleWithRemix(title, remix) ==
    IF remix # <<>>
    THEN title \o RemixOpen \o JoinNames(remix) \o RemixClose
    ELSE title

\* formatted_line and the appended dict (lines 124-130)
FormatTrack(title, artist_str) ==
    [formatted_line |-> title \o DashSep \o artist_str,
     title |-> title,
     artist |-> artist_str]

\* One pass of the body of 'for track in tracklist' (lines 101-130).
ClassifyOne(track) ==
    IF ~IsObj(track) THEN Raised
    ELSE LET tv == Get(track, K_title, Str(<<>>))
         IN  IF ~IsStr(tv) THEN Raised
             ELSE LET title == Strip(tv.str)
                  IN  IF is_unreleased_track(title) THEN Skipped
                      ELSE LET m == NamesOf(Get(track, K_mainArtists, Arr(<<>>)))
                               f == NamesOf(Get(track, K_featuringArtists, Arr(<<>>)))
                               r == NamesOf(Get(track, K_remixArtists, Arr(<<>>)))
                           IN  IF ~m.ok \/ ~f.ok \/ ~r.ok THEN Raised
                               ELSE IF m.names = <<>> THEN Skipped
                               ELSE IF ~CanJoin(m.names) THEN Raised
                               ELSE IF f.names # <<>> /\ ~CanJoin(f.names) THEN Raised
                               ELSE IF r.names # <<>> /\ ~CanJoin(r.names) THEN Raised
                               ELSE Appended(FormatTrack(TitleWithRemix(title, r.names),
                                                         ArtistStr(m.names, f.names)))

\* show_name (lines 96-97): re.search(r'/shows/([^/]+)/', url), then
\* .replace('-', ' ').title(), else "NTS Show".
ShowsPrefix == <<"/", "s", "h", "o", "w", "s", "/">>
DefaultShowName == <<"N", "T", "S", " ", "S", "h", "o", "w">>

\* Length of the run of non-'/' characters of u from element k on.
RECURSIVE SegLen(_, _)
SegLen(u, k) == IF k > Len(u) \/ u[k] = "/" THEN 0 ELSE 1 + SegLen(u, k + 1)

ShowMatch(u, k) ==
    /\ MatchAt(u, ShowsPrefix, k)
    /\ SegLen(u, k + 7) > 0
    /\ k + 7 + SegLen(u, k + 7) <= Len(u)

ShowName(u) ==
    LET ks == {k \in 1..Len(u) : ShowMatch(u, k)}
    IN  IF ks = {} THEN DefaultShowName
        ELSE LET k == CHOOSE k \in ks : \A j \in ks : k <= j
             IN  TitleCase(Replace(SubSeq(u, k + 7, k + 6 + SegLen(u, k + 7)), "-", " "))

\* create_text_output: '\n'.join(formatted lines)
create_text_output(tracks) ==
    Join(<<"\n">>, [n \in 1..Len(tracks) |-> tracks[n].formatted_line])

\* ------------------------------------------- extract_tracklist_from_html

Min(a, b) == IF a < b THEN a ELSE b

\* The end of range(json_start, min(json_start + 500000, len(html))).
ScanLimitOffByOne(start, t) == Min(start + ScanCeiling + 1, TLen(t))

ScanLimit(start, t) == Min(start + ScanCeiling, TLen(t))

\* Mutant of the loop body: brackets inside strings are counted.
ScanCharNoString(st, char) ==
    IF st.escape_next THEN [st EXCEPT !.escape_next = FALSE, !.found = FALSE]
    ELSE IF char = "\\" THEN [st EXCEPT !.escape_next = TRUE, !.found = FALSE]
    ELSE IF char = "\"" THEN [st EXCEPT !.in_string = ~@, !.found = FALSE]
    ELSE LET bc == IF char \in {"[", "{"} THEN st.bracket_count + 1
                   ELSE IF char \in {"]", "}"} THEN st.bracket_count - 1
                   ELSE st.bracket_count
         IN  [st EXCEPT !.bracket_count = bc, !.found = (bc = 0 /\ char = "]")]

\* Mutant of the loop body: the span closes on any return of the count to 0.
ScanCharAnyClose(st, char) ==
    IF st.escape_next THEN [st EXCEPT !.escape_next = FALSE, !.found = FALSE]
    ELSE IF char = "\\" THEN [st EXCEPT !.escape_next = TRUE, !.found = FALSE]
    ELSE IF char = "\"" THEN [st EXCEPT !.in_string = ~@, !.found = FALSE]
    ELSE IF ~st.in_string THEN
        LET bc == IF char \in {"[", "{"} THEN st.bracket_count + 1
                  ELSE IF char \in {"]", "}"} THEN st.bracket_count - 1
                  ELSE st.bracket_count
        IN  [st EXCEPT !.bracket_count = bc, !.found = (bc = 0 /\ char \in {"]", "}"})]
    ELSE [st EXCEPT !.found = FALSE]

\* One pass of the loop body (lines 31-59) on the character char, from the
\* locals st; found says that the pass reached line 52.
ScanChar(st, char) ==
    IF st.escape_next THEN [st EXCEPT !.escape_next = FALSE, !.found = FALSE]
    ELSE IF char = "\\" THEN [st EXCEPT !.escape_next = TRUE, !.found = FALSE]
    ELSE IF char = "\"" THEN [st EXCEPT !.in_string = ~@, !.found = FALSE]
    ELSE IF ~st.in_string THEN
        LET bc == IF char \in {"[", "{"} THEN st.bracket_count + 1
                  ELSE IF char \in {"]", "}"} THEN st.bracket_count - 1
                  ELSE st.bracket_count
        IN  [st EXCEPT !.bracket_count = bc, !.found = (bc = 0 /\ char = "]")]
    ELSE [st EXCEPT !.found = FALSE]

\* Mutant of the decode step: a decode failure is reported as False, not None.
DecodeSpanDistinct(s) == IF Loads(s).ok THEN Loads(s).v ELSE Bool(FALSE)

\* try: return json.loads(json_str) / except json.JSONDecodeError: return None
DecodeSpan(s) == IF Loads(s).ok THEN Loads(s).v ELSE Null

\* Mutant of the anchor search: the last occurrence instead of the first.
FindAnchorLast(t) ==
    LET ks == {k \in 1..Len(t) : MatchAt(t, Anchor, k)}
    IN  IF ks = {} THEN -1
        ELSE Off(t, CHOOSE k \in ks : \A j \in ks : j <= k)

\* html.find('"tracklist":[{')
FindAnchor(t) == FindFrom(t, Anchor, 0)

\* --------------------------------------------------------------- inputs

\* json text of a value; sep is the whitespace written after ',' and ':'.
RECURSIVE EscapeStr(_)
EscapeStr(s) ==
    IF s = <<>> THEN <<>>
    ELSE (IF Head(s) \in {"\"", "\\"} THEN <<"\\", Head(s)>> ELSE <<Head(s)>>)
         \o EscapeStr(Tail(s))

RECURSIVE JsonText(_, _)
RECURSIVE JsonItems(_, _)
RECURSIVE JsonMembers(_, _)
JsonText(v, sep) ==
    IF IsNull(v) THEN LitNull
    ELSE IF IsBool(v) THEN (IF v.bool THEN LitTrue ELSE LitFalse)
    ELSE IF IsStr(v) THEN <<"\"">> \o EscapeStr(v.str) \o <<"\"">>
    ELSE IF IsArr(v) THEN <<"[">> \o JsonItems(v.arr, sep) \o <<"]">>
    ELSE <<"{">> \o JsonMembers(v.obj, sep) \o <<"}">>
JsonItems(xs, sep) ==
    IF xs = <<>> THEN <<>>
    ELSE JsonText(Head(xs), sep)
         \o (IF Len(xs) > 1 THEN <<",">> \o sep \o JsonItems(Tail(xs), sep) ELSE <<>>)
JsonMembers(ms, sep) ==
    IF ms = <<>> THEN <<>>
    ELSE <<"\"">> \o EscapeStr(Head(ms).k) \o <<"\"", ":">> \o sep \o JsonText(Head(ms).v, sep)
         \o (IF Len(ms) > 1 THEN <<",">> \o sep \o JsonMembers(Tail(ms), sep) ELSE <<>>)

\* The text of a top-level array with whitespace fill before its closing ']'.
JsonTop(a, sep, fill) == <<"[">> \o JsonItems(a.arr, sep) \o fill \o <<"]">>

\* "tracklist": without the two characters that open the array
AnchorKey == SubSeq(Anchor, 1, 12)

\* A document that embeds the well-formed array a after the anchor key:
\* open and close are the character indices of its '[' and its closing ']'.
MkDoc(pre, a, sep, fill, suf) ==
    LET body == JsonTop(a, sep, fill)
    IN  [text |-> pre \o AnchorKey \o body \o suf,
         arr |-> a,
         open |-> TLen(pre) + 12,
         close |-> TLen(pre) + 12 + TLen(body) - 1]

\* Any other document.
RawDoc(t) == [text |-> t, arr |-> Null, open |-> -1, close |-> -1]
NoDoc == RawDoc(<<>>)

O1(k, v) == Obj(<<[k |-> k, v |-> v]>>)
O2(k1, v1, k2, v2) == Obj(<<[k |-> k1, v |-> v1], [k |-> k2, v |-> v2]>>)
Named(c) == O1(K_name, Str(c))

SongLiveRemix == <<"S", "o", "n", "g", " ", "[", "L", "i", "v", "e", "]", " ", "\"", "R", "e", "m", "i", "x", "\"">>
UnreleasedThing == <<"U", "n", "r", "e", "l", "e", "a", "s", "e", "d", " ", "T", "h", "i", "n", "g">>

\* String values with brackets, braces, quotes and backslashes in them.
TrickyStrings ==
    { <<>>, <<"x">>, <<"[">>, <<"]", "}">>, <<"\"">>, <<"\\">>, <<"a", "\\">>,
      <<"{", "\"", "]">>, <<"\\", "\"", "]">> }

\* Well-formed arrays of objects.
Arrays ==
    { Arr(<<Obj(<<>>)>>) }
    \cup { Arr(<<O1(<<"a">>, Str(s))>>) : s \in TrickyStrings }
    \cup { Arr(<<O1(<<"a">>, Str(s)), O1(<<"]">>, Str(s))>>) : s \in {<<"]", "}">>, <<"\"">>, <<"a", "\\">>} }
    \cup { Arr(<<O2(<<"a">>, Arr(<<O1(<<"b">>, Str(<<"]">>)), Obj(<<>>)>>), <<"c">>, Null)>>),
           Arr(<<O1(<<"a">>, Obj(<<>>)), O1(<<"b">>, Arr(<<>>))>>) }

\* Longer ones: the title of the spec's example, and its end-to-end document.
LongArrays ==
    { Arr(<<O1(K_title, Str(SongLiveRemix))>>),
      Arr(<<O2(K_title, Str(<<"X">>), K_mainArtists, Arr(<<Named(<<"Y">>)>>)),
            O2(K_title, Str(UnreleasedThing), K_mainArtists, Arr(<<Named(<<"Z">>)>>))>>) }

\* Largest number of single spaces written after a Pad block.
MaxFill == 2

Fills == {<<>>, <<" ">>} \cup { <<Pad>> \o [n \in 1..k |-> " "] : k \in 0..MaxFill }
Seps == {<<>>, <<" ">>}
Prefixes == {<<>>, <<"<", "[", "\"">>}
Suffixes == {<<>>, <<",", "\"", "x", "\"", ":", "[", "]", "}">>, <<"]", "]">>}

WellFormedDocs ==
    { MkDoc(pre, a, sep, fill, suf) :
        pre \in Prefixes, a \in Arrays, sep \in Seps, fill \in Fills, suf \in Suffixes }
    \cup { MkDoc(pre, a, <<>>, <<>>, suf) : pre \in Prefixes, a \in LongArrays, suf \in Suffixes }

\* Longest raw text written after the anchor.
RawLen == 4
RawAlphabet == {"[", "]", "}", "\"", "\\", "a"}

RawBodies == UNION { [1..m -> RawAlphabet] : m \in 0..RawLen }
ShortBodies == UNION { [1..m -> RawAlphabet] : m \in 0..1 }

RawDocs ==
    { RawDoc(Anchor \o b) : b \in RawBodies }
    \cup { RawDoc(<<"[", "{">> \o b) : b \in RawBodies }
    \cup { RawDoc(Anchor \o b1 \o Anchor \o b2) : b1 \in ShortBodies, b2 \in {<<>>, <<"}", "]">>} }
    \cup { RawDoc(SubSeq(Anchor, 1, 13) \o <<"[", "{", "}", "]">> \o Anchor \o <<"}", "]">>) }

Documents == WellFormedDocs \cup RawDocs

Urls ==
    { <<>>, <<" ">>,
      <<"e", ".", "c", "o", "/", "s", "h", "o", "w", "s", "/", "x", "/">>,
      <<" ", "n", "t", "s", ".", "l", "i", "v", "e", "/", "s", "h", "o", "w", "s", "/",
        "m", "y", "-", "s", "h", "o", "w", "/", "e">>,
      <<"n", "t", "s", ".", "l", "i", "v", "e", "/", "x">> }

NtsLive == <<"n", "t", "s", ".", "l", "i", "v", "e">>

\* ---------------------------------------------------------------- state

VARIABLES
    pc,               \* where the request is: idle, fetch, locate, scan, extracted,
                      \* classify, respond, done
    url,              \* extract: url
    html,             \* response.text
    tracklist_start, json_start, i, bracket_count, in_string, escape_next,
    json_str,         \* the located span, <<>> while none is located
    tracklist,        \* the value extract_tracklist_from_html returned
    n,                \* 1-based position of the for loop in tracklist
    formatted_tracks,
    data,             \* the value fetch_nts_tracklist returned
    raised,           \* the exception in flight: none, RequestException, Exception
    response,         \* the HTTP response of /api/extract
    doc,              \* history: how the fetched document was built (without its text)
    zero_seen         \* history: the count was 0 after a character that did not close the span

vars == <<pc, url, html, tracklist_start, json_start, i, bracket_count, in_string,
          escape_next, json_str, tracklist, n, formatted_tracks, data, raised,
          response, doc, zero_seen>>

scan_vars == <<tracklist_start, json_start, i, bracket_count, in_string, escape_next,
               json_str, zero_seen>>
loop_vars == <<n, formatted_tracks>>

NoResponse == [status |-> 0, error |-> "", body |-> Null]

Init ==
    /\ pc = "idle"
    /\ url = <<>>
    /\ html = <<>>
    /\ tracklist_start = -1
    /\ json_start = -1
    /\ i = 0
    /\ bracket_count = 0
    /\ in_string = FALSE
    /\ escape_next = FALSE
    /\ json_str = <<>>
    /\ tracklist = Null
    /\ n = 1
    /\ formatted_tracks = <<>>
    /\ data = Null
    /\ raised = "none"
    /\ response = NoResponse
    /\ doc = NoDoc
    /\ zero_seen = FALSE

\* extract, lines 176-182: the url is validated before anything is fetched.
Extract ==
    /\ pc = "idle"
    /\ \E u \in Urls :
        /\ url' = Strip(u)
        /\ IF Strip(u) = <<>>
           THEN /\ response' = [status |-> 400, error |-> "Please provide a URL", body |-> Null]
                /\ pc' = "done"
           ELSE IF ~Contains(Strip(u), NtsLive)
           THEN /\ response' = [status |-> 400, error |-> "Please provide a valid NTS.live URL", body |-> Null]
                /\ pc' = "done"
           ELSE /\ response' = response
                /\ pc' = "fetch"
    /\ UNCHANGED <<html, scan_vars, tracklist, loop_vars, data, raised, doc>>

\* fetch_nts_tracklist, lines 85-88: the GET or raise_for_status raises.
FetchFails ==
    /\ pc = "fetch"
    /\ raised' = "RequestException"
    /\ pc' = "respond"
    /\ UNCHANGED <<url, html, scan_vars, tracklist, loop_vars, data, response, doc>>

\* fetch_nts_tracklist, lines 85-90: the page arrives and the locator is called.
FetchOk ==
    /\ pc = "fetch"
    /\ \E d \in Documents :
        /\ doc' = [d EXCEPT !.text = <<>>]
        /\ html' = d.text
    /\ pc' = "locate"
    /\ UNCHANGED <<url, scan_vars, tracklist, loop_vars, data, raised, response>>

\* extract_tracklist_from_html, lines 20-28.
Locate ==
    /\ pc = "locate"
    /\ tracklist_start' = FindAnchor(html)
    /\ IF tracklist_start' = -1
       THEN /\ tracklist' = Null
            /\ pc' = "extracted"
            /\ UNCHANGED <<json_start, i, bracket_count, in_string, escape_next>>
       ELSE /\ json_start' = FindFrom(html, <<"[">>, tracklist_start')
            /\ i' = json_start'
            /\ bracket_count' = 0
            /\ in_string' = FALSE
            /\ escape_next' = FALSE
            /\ tracklist' = tracklist
            /\ pc' = "scan"
    /\ UNCHANGED <<url, html, json_str, zero_seen, loop_vars, data, raised, response, doc>>

\* extract_tracklist_from_html, lines 30-59: the loop body at index i.  Over a
\* Pad block every pass reads a space, and a second pass over a space changes
\* nothing the first left, so the passes up to the end of the block (or of the
\* range) are taken together.
ScanStep ==
    /\ pc = "scan"
    /\ i < ScanLimit(json_start, html)
    /\ LET k == ElemAt(html, i)
           char == IF html[k] = Pad THEN " " ELSE html[k]
           st == ScanChar([bracket_count |-> bracket_count, in_string |-> in_string,
                           escape_next |-> escape_next, found |-> FALSE], char)
       IN  /\ bracket_count' = st.bracket_count
           /\ in_string' = st.in_string
           /\ escape_next' = st.escape_next
           /\ IF st.found
              THEN /\ json_str' = Slice(html, json_start, i + 1)
                   /\ tracklist' = DecodeSpan(json_str')
                   /\ pc' = "extracted"
                   /\ UNCHANGED <<i, zero_seen>>
              ELSE /\ i' = Min(Off(html, k) + Width(html[k]), ScanLimit(json_start, html))
                   /\ zero_seen' = (zero_seen \/ st.bracket_count = 0)
                   /\ UNCHANGED <<json_str, tracklist, pc>>
    /\ UNCHANGED <<url, html, tracklist_start, json_start, loop_vars, data, raised, response, doc>>

\* extract_tracklist_from_html, line 61: the range is exhausted.
ScanEnd ==
    /\ pc = "scan"
    /\ i >= ScanLimit(json_start, html)
    /\ tracklist' = Null
    /\ pc' = "extracted"
    /\ UNCHANGED <<url, html, scan_vars, loop_vars, data, raised, response, doc>>

\* fetch_nts_tracklist, lines 92-99.
CheckTracklist ==
    /\ pc = "extracted"
    /\ IF Falsy(tracklist)
       THEN /\ data' = Null
            /\ pc' = "respond"
            /\ UNCHANGED loop_vars
       ELSE /\ formatted_tracks' = <<>>
            /\ n' = 1
            /\ pc' = "classify"
            /\ data' = data
    /\ UNCHANGED <<url, html, scan_vars, tracklist, raised, response, doc>>

\* fetch_nts_tracklist, lines 100-130: one pass of the for loop.
ClassifyTrack ==
    /\ pc = "classify"
    /\ n <= Len(tracklist.arr)
    /\ LET r == ClassifyOne(tracklist.arr[n])
       IN  IF r.kind = "raise"
           THEN /\ raised' = "Exception"
                /\ pc' = "respond"
                /\ UNCHANGED loop_vars
           ELSE /\ n' = n + 1
                /\ formatted_tracks' =
                       IF r.kind = "append" THEN Append(formatted_tracks, r.item)
                       ELSE formatted_tracks
                /\ UNCHANGED <<raised, pc>>
    /\ UNCHANGED <<url, html, scan_vars, tracklist, data, response, doc>>

\* fetch_nts_tracklist, lines 132-137.
ReturnResult ==
    /\ pc = "classify"
    /\ n > Len(tracklist.arr)
    /\ data' = [show_name |-> ShowName(url),
                url |-> url,
                track_count |-> Len(formatted_tracks),
                tracks |-> formatted_tracks]
    /\ pc' = "respond"
    /\ UNCHANGED <<url, html, scan_vars, tracklist, loop_vars, raised, response, doc>>

\* extract, lines 187-198.
Respond ==
    /\ pc = "respond"
    /\ response' =
         IF raised = "RequestException"
         THEN [status |-> 500, error |-> "Failed to fetch URL", body |-> Null]
         ELSE IF raised = "Exception"
         THEN [status |-> 500, error |-> "Unexpected error", body |-> Null]
         ELSE IF IsNull(data)
         THEN [status |-> 404, error |-> "No tracklist found on this page", body |-> Null]
         ELSE [status |-> 200, error |-> "",
               body |-> [show_name |-> data.show_name,
                         url |-> data.url,
                         track_count |-> data.track_count,
                         tracks |-> data.tracks,
                         text_output |-> create_text_output(data.tracks)]]
    /\ pc' = "done"
    /\ UNCHANGED <<url, html, scan_vars, tracklist, loop_vars, data, raised, doc>>

Next ==
    \/ Extract
    \/ FetchFails
    \/ FetchOk
    \/ Locate
    \/ ScanStep
    \/ ScanEnd
    \/ CheckTracklist
    \/ ClassifyTrack
    \/ ReturnResult
    \/ Respond

Spec == Init /\ [][Next]_vars

\* ------------------------------------------------- properties: locator

\* The locator has returned (or was never called: the request failed earlier).
AfterLocator == pc \in {"extracted", "classify", "respond", "done"}

\* The fetched document embeds a well-formed array right after the anchor key.
WellFormed == ~IsNull(doc.arr)

\* The ']' that closes the embedded array is inside the scan window.
ClosesInWindow == doc.close - doc.open < ScanCeiling

\* C1: for a text whose anchor '[' opens a well-formed array A that closes
\* within the scan window, the selected span runs from that '[' to the ']'
\* that closes A, whatever follows, and the returned value is A.
C1_RoundTrip ==
    (AfterLocator /\ WellFormed /\ ClosesInWindow) =>
        /\ json_start = doc.open
        /\ i = doc.close
        /\ json_str = Slice(html, doc.open, doc.close + 1)
        /\ tracklist = doc.arr

C1_Witness ==
    /\ pc = "extracted"
    /\ doc.arr = Arr(<<O1(K_title, Str(SongLiveRemix))>>)
    /\ TLen(html) > doc.close + 1
    /\ tracklist = doc.arr

\* C2: only characters of the 500000-character window that begins at
\* json_start are inspected; a well-formed array whose closing ']' lies
\* beyond the window is not found, one whose closing ']' lies inside is.
C2_BoundedScan ==
    /\ pc = "scan" => (json_start <= i /\ i <= json_start + ScanCeiling)
    /\ (AfterLocator /\ WellFormed) =>
          IF ClosesInWindow
          THEN json_str # <<>> /\ i = doc.close /\ ~IsNull(tracklist)
          ELSE json_str = <<>> /\ IsNull(tracklist)

C2_Witness ==
    /\ pc = "extracted"
    /\ WellFormed
    /\ doc.close - doc.open = ScanCeiling
    /\ IsNull(tracklist)
    /\ i = json_start + ScanCeiling

\* C3: a character read while in_string is true, or right after a
\* backslash, never changes the depth; the depth changes only on an
\* unquoted, unescaped bracket or brace.
C3_StringsDoNotPerturbDepth ==
    [][ /\ (pc = "scan" /\ (in_string \/ escape_next)) => bracket_count' = bracket_count
        /\ bracket_count' # bracket_count =>
              /\ pc = "scan"
              /\ ~in_string
              /\ ~escape_next
              /\ html[ElemAt(html, i)] \in {"[", "]", "{", "}"} ]_vars

\* The '[' of the title Song [Live] \"Remix\" has been read and the depth is
\* still that of the enclosing object.
C3_Witness ==
    /\ pc = "scan"
    /\ doc.arr = Arr(<<O1(K_title, Str(SongLiveRemix))>>)
    /\ in_string
    /\ i > json_start
    /\ html[ElemAt(html, i - 1)] = "["
    /\ bracket_count = 2

\* A span was located and json.loads rejects it.
DecodeFailed == json_str # <<>> /\ ~Loads(json_str).ok

\* C4 (as claimed): a decode failure is reported by a value other than the
\* None that reports NotFound.
C4_DecodeFailureDistinct ==
    (AfterLocator /\ DecodeFailed) => ~IsNull(tracklist)

\* C4 (amended): a decode failure is reported by None, the value that reports
\* NotFound, and the request ends like NotFound: 404, no tracklist found.
C4_DecodeFailureIsNone ==
    (AfterLocator /\ DecodeFailed) =>
        /\ IsNull(tracklist)
        /\ pc = "done" =>
              response = [status |-> 404, error |-> "No tracklist found on this page",
                          body |-> Null]

C4_Witness ==
    /\ pc = "done"
    /\ DecodeFailed
    /\ response.status = 404

\* C9: without the anchor in the text the locator returns None and never
\* scans, whatever brackets the text has; with several anchors the first is
\* the one used.
C9_AnchorAbsentOrFirst ==
    (pc \in {"scan", "extracted", "classify", "respond", "done"}) =>
        IF ~Contains(html, Anchor)
        THEN /\ pc # "scan"
             /\ IsNull(tracklist)
             /\ json_str = <<>>
             /\ json_start = -1
             /\ i = 0
        ELSE /\ tracklist_start >= 0
             /\ MatchAt(html, Anchor, ElemAt(html, tracklist_start))
             /\ \A k \in 1..Len(html) : MatchAt(html, Anchor, k) => Off(html, k) >= tracklist_start
             /\ json_start = tracklist_start + 12

\* A text with a JSON array and no anchor has been answered.
C9_Witness ==
    /\ pc = "extracted"
    /\ ~Contains(html, Anchor)
    /\ Contains(html, <<"[", "{", "}", "]">>)
    /\ IsNull(tracklist)

\* C10 (as claimed): on any text, the depth is 1 right after json_start, the
\* span ends on an unquoted, unescaped ']' with the depth at 0, and the depth
\* is not 0 after any earlier scanned character.
C10_DepthZeroOnlyAtEnd ==
    /\ (pc = "scan" /\ i = json_start + 1) => bracket_count = 1
    /\ json_str # <<>> =>
          /\ html[ElemAt(html, i)] = "]"
          /\ bracket_count = 0
          /\ ~zero_seen

\* C10 (amended): the first two hold on any text; the depth is not 0 before
\* the end of the span when the anchor '[' opens a well-formed array.
C10_DepthZeroAtEnd ==
    /\ (pc = "scan" /\ i = json_start + 1) => bracket_count = 1
    /\ json_str # <<>> =>
          /\ html[ElemAt(html, i)] = "]"
          /\ bracket_count = 0
          /\ ~in_string
          /\ ~escape_next
          /\ json_str = Slice(html, json_start, i + 1)
          /\ WellFormed => ~zero_seen

C10_Witness ==
    /\ pc = "extracted"
    /\ json_str # <<>>
    /\ WellFormed
    /\ doc.arr = Arr(<<O1(<<"a">>, Str(<<"]", "}">>))>>)

\* ------------------------------------------------ the classifier alone

Entry(t, m) == O2(K_title, Str(t), K_mainArtists, Arr(m))
FullEntry(t, m, f, r) ==
    Obj(<<[k |-> K_title, v |-> Str(t)], [k |-> K_mainArtists, v |-> Arr(m)],
          [k |-> K_featuringArtists, v |-> Arr(f)], [k |-> K_remixArtists, v |-> Arr(r)]>>)

NameY == Named(<<"Y">>)
Waves == <<"W", "a", "v", "e", "s">>
WavesEntry == FullEntry(Waves, <<Named(<<"A">>)>>, <<Named(<<"B">>)>>, <<Named(<<"C">>)>>)
XbyY == Entry(<<"X">>, <<NameY>>)
UnreleasedByZ == Entry(UnreleasedThing, <<Named(<<"Z">>)>>)
EmptyArtistEntry == Entry(<<"X">>, <<Named(<<>>)>>)
NullTitleEntry == O2(K_title, Null, K_mainArtists, Arr(<<NameY>>))
NamelessEntry == Entry(<<"X">>, <<Obj(<<>>)>>)

\* Decoded entries: releasable and unreleased titles, missing and empty
\* fields, several contributors per role, and entries that are not TrackEntry
\* shaped (null title, contributor without a name).
TrackEntries ==
    { XbyY, UnreleasedByZ, WavesEntry,
      Entry(<<" ", "T", "B", "C", " ">>, <<NameY>>),
      Entry(<<>>, <<NameY>>),
      Entry(<<" ", " ">>, <<NameY>>),
      O1(K_mainArtists, Arr(<<NameY>>)),
      O1(K_title, Str(<<"X">>)),
      Entry(<<"X">>, <<>>),
      Entry(<<" ", "X", " ">>, <<NameY, Named(<<"A">>)>>),
      FullEntry(<<"X">>, <<NameY>>, <<Named(<<"B">>), Named(<<"C">>)>>,
                <<Named(<<"C">>), Named(<<"A">>)>>),
      Entry(<<"F", "o", "r", "t", "h", "c", "o", "m", "i", "n", "g">>, <<NameY>>),
      Entry(<<"S", "t", "b", "a">>, <<NameY>>),
      Entry(<<"T", "o", " ", "B", "e", " ", "A", "n", "n", "o", "u", "n", "c", "e", "d">>, <<NameY>>),
      Entry(<<"I", "D", " ", "-", " ", "I", "D">>, <<NameY>>),
      Entry(<<"U", "n", "k", "n", "o", "w", "n">>, <<NameY>>),
      Entry(<<"T", "b", " ", "c">>, <<NameY>>),
      EmptyArtistEntry, NullTitleEntry, NamelessEntry }

\* Longest decoded tracklist.
MaxTracks == 2

TrackLists == UNION { [1..m -> TrackEntries] : m \in 1..MaxTracks }

ValidUrls == { Strip(u) : u \in {u \in Urls : Contains(u, NtsLive)} }

\* fetch_nts_tracklist after line 90, for a page that holds the entries as
\* the anchored array: the locator has returned their decoded value.
InitClassify ==
    \E entries \in TrackLists, u \in ValidUrls :
        LET d == MkDoc(<<>>, Arr(entries), <<>>, <<>>, <<>>)
            span == JsonTop(Arr(entries), <<>>, <<>>)
        IN  /\ pc = "extracted"
            /\ url = u
            /\ html = d.text
            /\ doc = [d EXCEPT !.text = <<>>]
            /\ tracklist_start = 0
            /\ json_start = d.open
            /\ i = d.close
            /\ bracket_count = 0
            /\ in_string = FALSE
            /\ escape_next = FALSE
            /\ json_str = span
            /\ tracklist = DecodeSpan(span)
            /\ n = 1
            /\ formatted_tracks = <<>>
            /\ data = Null
            /\ raised = "none"
            /\ response = NoResponse
            /\ zero_seen = FALSE

NextClassify ==
    \/ CheckTracklist
    \/ ClassifyTrack
    \/ ReturnResult
    \/ Respond

SpecClassify == InitClassify /\ [][NextClassify]_vars

\* ---------------------------------------------- properties: classifier

ClaimKeywords ==
    { <<"u", "n", "r", "e", "l", "e", "a", "s", "e", "d">>,
      <<"f", "o", "r", "t", "h", "c", "o", "m", "i", "n", "g">>,
      <<"t", "b", "c">>,
      <<"t", "b", "a">>,
      <<"t", "o", " ", "b", "e", " ", "a", "n", "n", "o", "u", "n", "c", "e", "d">>,
      <<"i", "d", " ", "-", " ", "i", "d">>,
      <<"u", "n", "k", "n", "o", "w", "n">> }

\* The names of a role of an entry (a missing role has none).
RoleNames(e, role) ==
    LET v == Get(e, role, Arr(<<>>))
    IN  [k \in 1..Len(v.arr) |-> Get(v.arr[k], K_name, Null).str]

TrimmedTitle(e) == Strip(Get(e, K_title, Str(<<>>)).str)

\* The filter as the claim states it.
PassesFilter(e) ==
    /\ TrimmedTitle(e) # <<>>
    /\ \A kw \in ClaimKeywords : ~Contains(Lower(TrimmedTitle(e)), kw)
    /\ RoleNames(e, K_mainArtists) # <<>>

\* The track as the claim composes it.
ClaimTitle(e) ==
    IF RoleNames(e, K_remixArtists) # <<>>
    THEN TrimmedTitle(e) \o <<" ", "(">> \o Join(<<",", " ">>, RoleNames(e, K_remixArtists))
         \o <<" ", "R", "e", "m", "i", "x", ")">>
    ELSE TrimmedTitle(e)
ClaimArtist(e) ==
    IF RoleNames(e, K_featuringArtists) # <<>>
    THEN Join(<<",", " ">>, RoleNames(e, K_mainArtists)) \o <<" ", "f", "t", ".", " ">>
         \o Join(<<",", " ">>, RoleNames(e, K_featuringArtists))
    ELSE Join(<<",", " ">>, RoleNames(e, K_mainArtists))
ClaimTrack(e) ==
    [formatted_line |-> ClaimTitle(e) \o <<" ", "-", " ">> \o ClaimArtist(e),
     title |-> ClaimTitle(e),
     artist |-> ClaimArtist(e)]

RECURSIVE ClaimTracks(_)
ClaimTracks(entries) ==
    IF entries = <<>> THEN <<>>
    ELSE (IF PassesFilter(Head(entries)) THEN <<ClaimTrack(Head(entries))>> ELSE <<>>)
         \o ClaimTracks(Tail(entries))

\* The entry has the shape of the data model's TrackEntry: a text title (or
\* none) and, per role, a list of contributors with text names.
IsContributors(v) ==
    IsArr(v) /\ \A k \in 1..Len(v.arr) :
        IsObj(v.arr[k]) /\ HasKey(v.arr[k], K_name) /\ IsStr(Get(v.arr[k], K_name, Null))
IsTrackEntry(e) ==
    /\ IsObj(e)
    /\ IsStr(Get(e, K_title, Str(<<>>)))
    /\ IsContributors(Get(e, K_mainArtists, Arr(<<>>)))
    /\ IsContributors(Get(e, K_featuringArtists, Arr(<<>>)))
    /\ IsContributors(Get(e, K_remixArtists, Arr(<<>>)))
AllTrackEntries == IsArr(tracklist) /\ \A k \in 1..Len(tracklist.arr) : IsTrackEntry(tracklist.arr[k])

\* C5: the emitted tracks are those of the entries that pass the filter
\* (trimmed title non-empty, no keyword in the lowercased title, a main
\* contributor), in input order, duplicates kept: after each pass of the loop
\* for the entries read so far, and in the response for all of them.
C5_FilterAndOrder ==
    /\ pc = "classify" => formatted_tracks = ClaimTracks(SubSeq(tracklist.arr, 1, n - 1))
    /\ (pc = "done" /\ AllTrackEntries) =>
          /\ response.status = 200
          /\ response.body.tracks = ClaimTracks(tracklist.arr)
          /\ response.body.track_count = Len(ClaimTracks(tracklist.arr))

\* An unreleased entry followed by a releasable one: one track comes out.
C5_Witness ==
    /\ pc = "done"
    /\ tracklist = Arr(<<UnreleasedByZ, XbyY>>)
    /\ response.status = 200
    /\ Len(response.body.tracks) = 1

\* C6: every emitted track has a non-empty artist string.
C6_ArtistNonEmpty ==
    \A k \in 1..Len(formatted_tracks) : formatted_tracks[k].artist # <<>>

\* C7: every extraction ends in a complete result or in one of FetchError,
\* NotFound, DecodeFailure, ValidationError.
C7_OutcomeInTaxonomy ==
    pc = "done" =>
        \/ /\ response.status = 200
           /\ response.body.track_count = Len(response.body.tracks)
           /\ response.body.tracks = formatted_tracks
        \/ response.status = 400
        \/ response.status = 404
        \/ response.status = 500 /\ response.error = "Failed to fetch URL"

\* C8: the track emitted for an entry that passes the filter is composed as
\* claimed; the Waves entry gives "Waves (C Remix) - A ft. B"; the entries X by
\* Y and Unreleased Thing by Z give the one track "X - Y".
C8_DisplayLine ==
    /\ (pc = "classify" /\ n > 1 /\ PassesFilter(tracklist.arr[n - 1])) =>
          /\ formatted_tracks # <<>>
          /\ formatted_tracks[Len(formatted_tracks)] = ClaimTrack(tracklist.arr[n - 1])
    /\ (pc = "done" /\ tracklist = Arr(<<WavesEntry>>)) =>
          /\ response.status = 200
          /\ Len(response.body.tracks) = 1
          /\ response.body.tracks[1].formatted_line =
                <<"W", "a", "v", "e", "s", " ", "(", "C", " ", "R", "e", "m", "i", "x", ")",
                  " ", "-", " ", "A", " ", "f", "t", ".", " ", "B">>
    /\ (pc = "done" /\ tracklist = Arr(<<XbyY, UnreleasedByZ>>)) =>
          /\ response.status = 200
          /\ response.body.track_count = 1
          /\ response.body.text_output = <<"X", " ", "-", " ", "Y">>

C8_Witness ==
    /\ pc = "done"
    /\ tracklist = Arr(<<WavesEntry>>)
    /\ response.status = 200
    /\ Len(response.body.tracks) = 1

====
